---- MODULE Spec2Model ----
(***************************************************************************)
(* Model of the WhatsApp auto-reply bot: the inbound decision pipeline     *)
(* (WhatsAppService.handleIncomingMessage), the settings service           *)
(* (BotSettingsService) and the manual takeover service                    *)
(* (ManualReplyService).  Every `await` that touches the store or the      *)
(* transport is an interleaving point: the 'message' listener is an async  *)
(* callback that the event emitter does not wait for, so handlers of       *)
(* several events run interleaved.                                         *)
(***************************************************************************)
EXTENDS Integers, Sequences, FiniteSets, TLC

\* ------------------------------------------------------------------ bounds
\* Number of inbound 'message' events delivered by the transport.
MaxEvents == 2
\* Number of dashboard/API calls made by operators.
MaxOps == 2

\* A value that may be missing (null, undefined, no row) is <<>> when missing
\* and <<v>> when present; a missing string-valued local is None.
Null == <<>>
Some(v) == <<v>>
None == "none"

\* ------------------------------------------------------------ text helpers
\* Strings are sequences of one-character strings, so that case folding,
\* trimming and substring search are computed and not assumed.
Upper(ch) ==
  CASE ch = "a" -> "A" [] ch = "e" -> "E" [] ch = "h" -> "H"
    [] ch = "i" -> "I" [] ch = "l" -> "L" [] ch = "m" -> "M"
    [] ch = "n" -> "N" [] ch = "o" -> "O" [] ch = "p" -> "P"
    [] ch = "s" -> "S" [] ch = "t" -> "T" [] ch = "u" -> "U"
    [] OTHER -> ch

toUpperCase(s) == [i \in 1..Len(s) |-> Upper(s[i])]

\* The characters String.prototype.trim removes (those the model uses).
isWhitespace(ch) == ch \in {" ", "\t", "\n"}

RECURSIVE trimStart(_)
trimStart(s) == IF s # <<>> /\ isWhitespace(Head(s)) THEN trimStart(Tail(s)) ELSE s

RECURSIVE trimEnd(_)
trimEnd(s) ==
  IF s # <<>> /\ isWhitespace(s[Len(s)]) THEN trimEnd(SubSeq(s, 1, Len(s) - 1)) ELSE s

trim(s) == trimEnd(trimStart(s))

\* String.prototype.includes
includes(text, kw) ==
  \E i \in 0..(Len(text) - Len(kw)) : SubSeq(text, i + 1, i + Len(kw)) = kw

\* Array.prototype.includes on a list of contact ids
listIncludes(list, id) == \E i \in 1..Len(list) : list[i] = id

\* Array.prototype.filter(x => x !== id)
RECURSIVE listWithout(_, _)
listWithout(list, id) ==
  IF list = <<>> THEN <<>>
  ELSE IF Head(list) = id THEN listWithout(Tail(list), id)
       ELSE <<Head(list)>> \o listWithout(Tail(list), id)

\* ------------------------------------------------------------- the domain
\* WhatsApp ids "<phone>@<server>": two private chats and one group chat.
PrivateAddrs == { <<"a", "c.us">>, <<"b", "c.us">> }
Addrs == PrivateAddrs \cup { <<"g", "g.us">> }

extractPhoneNumber(waId) == waId[1]

isGroupId(waId) == waId[2] = "g.us"

Phones == { extractPhoneNumber(a) : a \in Addrs }

\* Inbound message bodies.
BodyStop == <<" ", "S", "t", "o", "p">>
BodyHello == <<"h", "e", "l", "l", "o">>
BodyHuman == <<"a", " ", "h", "u", "m", "a", "n">>
Bodies == { BodyStop, BodyHello, BodyHuman }

\* event flags: message.fromMe, message.isStatus
Flags == { "none", "fromMe", "status" }

\* Defaults written by initializeDefaults.
DefaultStopKeywords ==
  << <<"S", "T", "O", "P">>,
     <<"B", "E", "R", "H", "E", "N", "T", "I">>,
     <<"U", "N", "S", "U", "B", "S", "C", "R", "I", "B", "E">>,
     <<"C", "A", "N", "C", "E", "L">> >>

DefaultRequireHumanKeywords ==
  << <<"M", "A", "N", "U", "S", "I", "A">>,
     <<"H", "U", "M", "A", "N">>,
     <<"O", "P", "E", "R", "A", "T", "O", "R">>,
     <<"A", "G", "E", "N", "T">>,
     <<"C", "U", "S", "T", "O", "M", "E", "R", " ", "S", "E", "R", "V", "I", "C", "E">> >>

BusinessDays == {1, 2, 3, 4, 5}
BusinessStart == <<9, 0>>
BusinessEnd == <<17, 0>>
DefaultMaxReplies == 10

\* The wall clock: <<day of week, hours, minutes>>: Monday 10:00, Monday 18:30.
ClockValues == { <<1, 10, 0>>, <<1, 18, 30>> }

\* What the completion capability may do: fail ("throw"), or return the empty
\* string, a whitespace-only string, a text of at most 500 characters or a text
\* of two sentences that do not fit into 500 characters together.
AiResults == { "throw", "empty", "blank", "short", "long" }

\* The text of a response: "", " \n", a short text; the long text is not
\* written out.
AiText(resp) ==
  CASE resp = "empty" -> <<>>
    [] resp = "blank" -> <<" ", "\n">>
    [] resp = "short" -> <<"o", "k", " ">>
    [] OTHER -> <<"l", "o", "n", "g">>

\* Every response is taken for a reply.
isBlankResponse_Never(resp) == FALSE

\* `!aiResponse || aiResponse.trim().length === 0`
isBlankResponse(resp) == AiText(resp) = <<>> \/ Len(trim(AiText(resp))) = 0

\* chunkMessage(aiResponse, 500).length for the two non-blank responses
NumChunks(resp) == IF resp = "long" THEN 2 ELSE 1

VARIABLES
  settings,       \* bot_settings table: key -> value, Null when the row is absent
  clock,          \* new Date()
  contacts,       \* contacts/conversations tables: phone -> Null or a record
  messages,       \* messages table (rows are never changed or deleted)
  ev,             \* the inbound events so far, in arrival order, with their handlers
  ops,            \* the dashboard calls in flight
  opsUsed,        \* number of dashboard calls made so far
  sent,           \* what chat.sendMessage has accepted
  startCalled,    \* history: the contact ids startContact was called for
  pendingCreate,  \* sent messages whose 'message_create' listener has not saved yet
  down,           \* the process has been shut down
  calls           \* history: the service calls answered so far, with their results

vars == <<settings, clock, contacts, messages, ev, ops, opsUsed, sent, startCalled, pendingCreate, down, calls>>

\* ------------------------------------------------------- BotSettingsService
getSetting(s, key) == s[key]

\* `getSetting(key) || dflt`
getSettingOr(s, key, dflt) == IF s[key] = Null THEN dflt ELSE s[key][1]

\* Truthiness of a boolean-or-null setting value.
truthy(v) == v # Null /\ v[1] = TRUE

\* The check without its reading of the setting.
isAutoReplyEnabled_Always(s) == TRUE

\* `enabled !== false`
isAutoReplyEnabled(s) == getSetting(s, "auto_reply_enabled") # Some(FALSE)

checkBusinessHours(s, now) ==
  LET currentDay == now[1]
      currentTime == now[2] * 60 + now[3]
      startMinutes == BusinessStart[1] * 60 + BusinessStart[2]
      endMinutes == BusinessEnd[1] * 60 + BusinessEnd[2]
  IN IF currentDay \notin BusinessDays THEN FALSE
     ELSE currentTime >= startMinutes /\ currentTime <= endMinutes

\* shouldReplyToContact(contact) with its default messageCount = 0
shouldReplyToContact(s, now, contact) ==
  LET messageCount == 0
      maxReplies == getSetting(s, "max_replies_per_contact")
      stoppedContacts == getSettingOr(s, "stopped_contacts", <<>>)
  IN IF ~isAutoReplyEnabled(s)
       THEN [should |-> FALSE, reason |-> "Auto-reply is disabled"]
     ELSE IF truthy(getSetting(s, "business_hours_enabled")) /\ ~checkBusinessHours(s, now)
       THEN [should |-> FALSE, reason |-> "Outside business hours"]
     ELSE IF maxReplies # Null /\ maxReplies[1] > 0 /\ messageCount >= maxReplies[1]
       THEN [should |-> FALSE, reason |-> "Max replies reached for today"]
     ELSE IF listIncludes(stoppedContacts, contact.id)
       THEN [should |-> FALSE, reason |-> "Contact has stopped bot"]
     ELSE IF contact.isGroup /\ ~truthy(getSetting(s, "reply_in_groups"))
       THEN [should |-> FALSE, reason |-> "Group replies disabled"]
     ELSE [should |-> TRUE, reason |-> None]

checkStopKeyword(messageText) ==
  LET text == trim(toUpperCase(messageText))
  IN \E i \in 1..Len(DefaultStopKeywords) : text = toUpperCase(DefaultStopKeywords[i])

checkRequireHuman(messageText) ==
  LET text == toUpperCase(messageText)
  IN \E i \in 1..Len(DefaultRequireHumanKeywords) :
       includes(text, toUpperCase(DefaultRequireHumanKeywords[i]))

\* The list stopContact writes back, given the list it read.
stopContactList(list, contactId) ==
  IF listIncludes(list, contactId) THEN list ELSE Append(list, contactId)

\* stopContact calls setSetting only when the id was not in the list it read.
stopContactWrites(list, contactId) == ~listIncludes(list, contactId)

\* The list startContact writes back, given the list it read.
startContactList(list, contactId) == listWithout(list, contactId)


\* ------------------------------------------------------------ the database
DefaultSettings ==
  [ auto_reply_enabled |-> Some(TRUE),
    business_hours_enabled |-> Some(FALSE),
    out_of_office_enabled |-> Some(FALSE),
    max_replies_per_contact |-> Some(DefaultMaxReplies),
    reply_in_groups |-> Some(FALSE),
    human_takeover_enabled |-> Some(TRUE),
    stopped_contacts |-> Null ]

\* The boolean settings an operator edits from the dashboard.
BoolKeys ==
  { "auto_reply_enabled", "business_hours_enabled", "out_of_office_enabled" }

\* Contact.create in getOrCreateContact, followed by Conversation.create
NewInboundContact(waId) ==
  Some([ isGroup |-> isGroupId(waId), takeover |-> Null, conv |-> Some(1) ])

\* Contact.create in saveMessage for an outbound message: no Conversation row
NewOutboundContact == Some([ isGroup |-> FALSE, takeover |-> Null, conv |-> Null ])

\* Conversation.increment('messageCount', {where: {contactId}})
IncrementConversation(c) ==
  IF c[1].conv = Null THEN c ELSE Some([c[1] EXCEPT !.conv = Some(@[1] + 1)])

\* saveAIMessage builds the chat id from the recipient and looks the chat up.
chatIdFor(recipient) ==
  IF recipient[2] = "c.us" THEN recipient ELSE <<recipient[1], recipient[2], "c.us">>

chatExists(chatId) == chatId \in Addrs

\* ---------------------------------------------------------- event handlers
NewEvent(from, body, flag, listed) ==
  [ from |-> from, body |-> body, flag |-> flag,
    listed |-> listed,    \* history: the sender was on the stop-list on arrival
    pc |-> IF flag # "none" THEN "done" ELSE "contact",
    cid |-> None,         \* contact.id once getOrCreateContact returned
    kind |-> None,        \* which message the handler is sending
    list |-> <<>>,        \* stoppedContacts read by stopContact
    resp |-> None,        \* aiResponse
    chunk |-> 0,          \* chunks handed to chat.sendMessage so far
    checks |-> <<>>,      \* history: the checks evaluated, in order
    outcome |-> IF flag # "none" THEN "not-actionable" ELSE None,
    typed |-> FALSE,      \* history: a typing signal was set for the reply
    aiCalled |-> FALSE,   \* history: aiService.generateResponse was called
    aiFailed |-> FALSE,   \* history: aiService.generateResponse threw
    late |-> FALSE,       \* history: a reply was sent after a later event of the
                          \* same contact had set its typing signal
    stopDone |-> FALSE ]  \* history: stopContact returned normally

\* The handler returns (or its catch block logged the error).
Finish(r, outcome) ==
  [r EXCEPT !.pc = "done", !.outcome = outcome, !.list = <<>>, !.resp = None]

\* The error is thrown out of handleIncomingMessage to its caller.
Catch_Rethrow(r) ==
  [r EXCEPT !.pc = "done", !.outcome = "rejected", !.list = <<>>, !.resp = None]

\* `catch (error) { console.error(...) }` around the whole handler body
Catch(r) == Finish(r, "error")

\* Every in-flight handler is ended by the error of one of them.
HandlerFailed_AbortAll(evs, e) ==
  [i \in DOMAIN evs |-> IF evs[i].pc # "done" THEN Catch(evs[i]) ELSE evs[i]]

\* An error thrown in the handler of event e reaches the catch block of that
\* invocation only: each listener call runs its own handleIncomingMessage.
HandlerFailed(evs, e) == [evs EXCEPT ![e] = Catch(@)]

Check(r, name, matched) == [r EXCEPT !.checks = Append(@, <<name, matched>>)]

\* The process is up and no 'message_create' listener is in the middle of its
\* saveMessage.  The listener only adds to the contacts and messages tables
\* and was raised by a send to a contact that exists, so it commutes with
\* every step but the shutdown; it is run before the next step of the others.
Idle == ~down /\ pendingCreate = {}

\* One handler at a time: an event waits for every earlier event to be handled.
Running_Serialized(e) ==
  /\ Idle /\ e \in DOMAIN ev /\ ev[e].pc # "done"
  /\ \A e1 \in 1..(e - 1) : ev[e1].pc = "done"

Running(e) == Idle /\ e \in DOMAIN ev /\ ev[e].pc # "done"

\* client.on('message', ...): the synchronous prefix of handleIncomingMessage
Arrive(from, body, flag) ==
  /\ Idle
  /\ Len(ev) < MaxEvents
  /\ LET listed == listIncludes(getSettingOr(settings, "stopped_contacts", <<>>),
                                 extractPhoneNumber(from))
     IN ev' = Append(ev, Check(NewEvent(from, body, flag, listed),
                               "not-actionable", flag # "none"))
  /\ UNCHANGED <<settings, clock, contacts, messages, ops, opsUsed, sent, startCalled, pendingCreate, down, calls>>

GetOrCreateContact(e) ==
  /\ Running(e) /\ ev[e].pc = "contact"
  /\ LET phone == extractPhoneNumber(ev[e].from)
     IN \E ok \in BOOLEAN :
          IF ok
            THEN /\ contacts' = [contacts EXCEPT ![phone] =
                                   IF @ = Null THEN NewInboundContact(ev[e].from)
                                   ELSE IncrementConversation(@)]
                 /\ ev' = [ev EXCEPT ![e] = [@ EXCEPT !.cid = phone, !.pc = "save"]]
            ELSE \* Contact.findOne throws: logged and rethrown to the handler
                 /\ ev' = HandlerFailed(ev, e)
                 /\ UNCHANGED contacts
  /\ UNCHANGED <<settings, clock, messages, ops, opsUsed, sent, startCalled, pendingCreate, down, calls>>

\* saveMessage(message, contact.id) for the inbound message
SaveMessage(e) ==
  /\ Running(e) /\ ev[e].pc = "save"
  /\ messages' = messages \cup
       { [ contact |-> ev[e].cid, isFromMe |-> FALSE, isAiGenerated |-> FALSE,
           by |-> "saveMessage", body |-> "inbound", ev |-> e, n |-> 0 ] }
  /\ ev' = [ev EXCEPT ![e].pc = "autoReply"]
  /\ UNCHANGED <<settings, clock, contacts, ops, opsUsed, sent, startCalled, pendingCreate, down, calls>>

CheckAutoReply(e) ==
  /\ Running(e) /\ ev[e].pc = "autoReply"
  /\ LET autoReplyEnabled == isAutoReplyEnabled(settings)
         r == Check(ev[e], "auto-reply", ~autoReplyEnabled)
     IN ev' = [ev EXCEPT ![e] =
                 IF ~autoReplyEnabled THEN Finish(r, "auto-reply-disabled")
                 ELSE [r EXCEPT !.pc = "bizHours"]]
  /\ UNCHANGED <<settings, clock, contacts, messages, ops, opsUsed, sent, startCalled, pendingCreate, down, calls>>

CheckBusinessHoursStep(e) ==
  /\ Running(e) /\ ev[e].pc = "bizHours"
  /\ LET outside == truthy(getSetting(settings, "business_hours_enabled"))
                      /\ ~checkBusinessHours(settings, clock)
         r == Check(ev[e], "business-hours", outside)
     IN ev' = [ev EXCEPT ![e] =
                 IF ~outside THEN [r EXCEPT !.pc = "eligibility"]
                 ELSE IF truthy(getSetting(settings, "out_of_office_enabled"))
                   THEN [r EXCEPT !.kind = "ooo", !.pc = "send"]
                 ELSE Finish(r, "outside-business-hours")]
  /\ UNCHANGED <<settings, clock, contacts, messages, ops, opsUsed, sent, startCalled, pendingCreate, down, calls>>

\* Which message the handler sends once the contact is eligible:
\* checkStopKeyword, then checkRequireHuman, else the AI reply.
Decide(r) ==
  LET isStopKeyword == checkStopKeyword(r.body)
      requiresHuman == checkRequireHuman(r.body)
      r1 == Check(r, "stop-keyword", isStopKeyword)
      r2 == Check(r1, "require-human", requiresHuman)
  IN IF isStopKeyword THEN [r1 EXCEPT !.kind = "stopAck", !.pc = "send"]
     ELSE IF requiresHuman THEN [r2 EXCEPT !.kind = "humanAck", !.pc = "send"]
     ELSE [r2 EXCEPT !.kind = "ai", !.pc = "ai"]

\* shouldReplyToContact(contact), then the two keyword checks; the keyword
\* lists are not edited while the bot runs, so the keyword checks read nothing
\* that changes and are taken in the same step.
CheckEligibility(e) ==
  /\ Running(e) /\ ev[e].pc = "eligibility"
  /\ LET contact == [id |-> ev[e].cid, isGroup |-> contacts[ev[e].cid][1].isGroup]
         shouldReply == shouldReplyToContact(settings, clock, contact)
         r == Check(ev[e], "eligibility", ~shouldReply.should)
     IN ev' = [ev EXCEPT ![e] =
                 IF ~shouldReply.should THEN Finish(r, shouldReply.reason)
                 ELSE Decide(r)]
  /\ UNCHANGED <<settings, clock, contacts, messages, ops, opsUsed, sent, startCalled, pendingCreate, down, calls>>

\* The handler calls generateResponse again after it threw.
OnCompletionError_Retry(r) == [r EXCEPT !.aiFailed = TRUE]

\* generateResponse logs and rethrows; the handler's catch block logs.
OnCompletionError(r) == Catch([r EXCEPT !.aiFailed = TRUE])

\* aiService.generateResponse(contact.id, message.body, ...)
GenerateResponse(e) ==
  /\ Running(e) /\ ev[e].pc = "ai"
  /\ \E aiResponse \in AiResults :
       LET r == [ev[e] EXCEPT !.aiCalled = TRUE]
       IN ev' = [ev EXCEPT ![e] =
                   IF aiResponse = "throw" THEN OnCompletionError(r)
                   ELSE IF isBlankResponse(aiResponse)
                     THEN Finish(r, "no-ai-response")
                   ELSE [r EXCEPT !.resp = aiResponse, !.pc = "typing"]]
  /\ UNCHANGED <<settings, clock, contacts, messages, ops, opsUsed, sent, startCalled, pendingCreate, down, calls>>

\* simulateTyping: chat.sendStateTyping(); an error is logged and swallowed
SendStateTyping(e) ==
  /\ Running(e) /\ ev[e].pc = "typing"
  /\ \E ok \in BOOLEAN :
       ev' = [ev EXCEPT ![e] =
                IF ok THEN [@ EXCEPT !.typed = TRUE, !.pc = "clear"]
                ELSE [@ EXCEPT !.pc = "send"]]
  /\ UNCHANGED <<settings, clock, contacts, messages, ops, opsUsed, sent, startCalled, pendingCreate, down, calls>>

\* simulateTyping: chat.clearState()
ClearState(e) ==
  /\ Running(e) /\ ev[e].pc = "clear"
  /\ ev' = [ev EXCEPT ![e].pc = "send"]
  /\ UNCHANGED <<settings, clock, contacts, messages, ops, opsUsed, sent, startCalled, pendingCreate, down, calls>>

\* client.on('message_create', ...) for a message m the account has sent:
\* saveMessage(message) with message.fromMe.
MessageCreateContacts(m, cs) ==
  LET phone == extractPhoneNumber(m.to)
  IN [cs EXCEPT ![phone] = IF @ = Null THEN NewOutboundContact ELSE @]

MessageCreateRow(m) ==
  [ contact |-> extractPhoneNumber(m.to), isFromMe |-> TRUE, isAiGenerated |-> FALSE,
    by |-> "saveMessage", body |-> m.kind, ev |-> m.ev, n |-> m.n ]

MessageCreate(m) ==
  /\ ~down
  /\ m \in pendingCreate
  /\ pendingCreate' = pendingCreate \ {m}
  /\ contacts' = MessageCreateContacts(m, contacts)
  /\ messages' = messages \cup {MessageCreateRow(m)}
  /\ UNCHANGED <<settings, clock, ev, ops, opsUsed, sent, startCalled, down, calls>>

\* The handler hands every message to the transport a second time.
AfterSend_Resend(r) ==
  IF r.chunk + 1 < NumChunks("long")
    THEN [r EXCEPT !.chunk = @ + 1, !.pc = "send"]
  ELSE [r EXCEPT !.chunk = @ + 1, !.pc = "saveAI"]

\* Where the handler goes after chat.sendMessage accepted a message.
AfterSend(r) ==
  IF r.kind = "ai" /\ r.chunk + 1 < NumChunks(r.resp)
    THEN [r EXCEPT !.chunk = @ + 1, !.pc = "typing"]
  ELSE [r EXCEPT !.chunk = @ + 1, !.pc = "saveAI"]

\* A later event of the same contact has already set its typing signal.
Overtaken(e) ==
  \E e2 \in DOMAIN ev : e2 > e /\ ev[e2].from = ev[e].from /\ ev[e2].typed

\* chat.sendMessage(...): the transport accepts the message or throws
SendMessage(e) ==
  /\ Running(e) /\ ev[e].pc = "send"
  /\ \E ok \in BOOLEAN :
       IF ok
         THEN LET m == [ev |-> e, to |-> ev[e].from, kind |-> ev[e].kind, n |-> ev[e].chunk + 1]
              IN /\ sent' = sent \cup {m}
                 /\ pendingCreate' = pendingCreate \cup {m}
                 /\ ev' = [ev EXCEPT ![e] = AfterSend([@ EXCEPT !.late = @ \/ Overtaken(e)])]
         ELSE /\ ev' = HandlerFailed(ev, e)
              /\ UNCHANGED <<sent, pendingCreate>>
  /\ UNCHANGED <<settings, clock, contacts, messages, ops, opsUsed, startCalled, down, calls>>

\* The row saveAIMessage creates.
AIMessageRow(contactId, kind, e) ==
  [ contact |-> contactId, isFromMe |-> TRUE, isAiGenerated |-> TRUE,
    by |-> "saveAIMessage", body |-> kind, ev |-> e, n |-> 0 ]

\* The out-of-office branch without its `return`.
AfterSaveAI_FallThrough(r) ==
  IF r.kind = "ai" THEN Finish(r, "ai-reply") ELSE [r EXCEPT !.pc = "stopRead"]

\* Where the handler goes after saveAIMessage returned.
AfterSaveAI(r) ==
  IF r.kind = "ooo" THEN Finish(r, "out-of-office")
  ELSE IF r.kind = "ai" THEN Finish(r, "ai-reply")
  ELSE [r EXCEPT !.pc = "stopRead"]

\* saveAIMessage(contact.id, content, message.from): errors are swallowed
SaveAIMessage(e) ==
  /\ Running(e) /\ ev[e].pc = "saveAI"
  /\ messages' = IF chatExists(chatIdFor(ev[e].from))
                   THEN messages \cup {AIMessageRow(ev[e].cid, ev[e].kind, e)}
                   ELSE messages
  /\ ev' = [ev EXCEPT ![e] = AfterSaveAI(@)]
  /\ UNCHANGED <<settings, clock, contacts, ops, opsUsed, sent, startCalled, pendingCreate, down, calls>>

AckOutcome(kind) == IF kind = "stopAck" THEN "stop-ack" ELSE "human-ack"

\* stopContact(contact.id): `await this.getSetting('stopped_contacts') || []`
StopContactRead(e) ==
  /\ Running(e) /\ ev[e].pc = "stopRead"
  /\ LET stoppedContacts == getSettingOr(settings, "stopped_contacts", <<>>)
     IN ev' = [ev EXCEPT ![e] =
                 IF stopContactWrites(stoppedContacts, ev[e].cid)
                   THEN [@ EXCEPT !.list = stopContactList(stoppedContacts, ev[e].cid),
                                  !.pc = "stopWrite"]
                 ELSE Finish([@ EXCEPT !.stopDone = TRUE], AckOutcome(ev[e].kind))]
  /\ UNCHANGED <<settings, clock, contacts, messages, ops, opsUsed, sent, startCalled, pendingCreate, down, calls>>

\* stopContact(contact.id): `await this.setSetting('stopped_contacts', stoppedContacts)`
StopContactWrite(e) ==
  /\ Running(e) /\ ev[e].pc = "stopWrite"
  /\ \E ok \in BOOLEAN :
       IF ok
         THEN /\ settings' = [settings EXCEPT !["stopped_contacts"] = Some(ev[e].list)]
              /\ ev' = [ev EXCEPT ![e] =
                          Finish([@ EXCEPT !.stopDone = TRUE], AckOutcome(ev[e].kind))]
         ELSE /\ ev' = HandlerFailed(ev, e)
              /\ UNCHANGED settings
  /\ UNCHANGED <<clock, contacts, messages, ops, opsUsed, sent, startCalled, pendingCreate, down, calls>>

\* ------------------------------------------------------- dashboard calls
\* A call in flight: its kind, the contact id it is about, its position in
\* the code and the stoppedContacts list it has read.
NewOp(id, kind, contactId) ==
  [id |-> id, kind |-> kind, contact |-> contactId, pc |-> "read", list |-> <<>>]

\* POST /bot/contacts/:contactId/stop, POST /bot/contacts/:contactId/start,
\* POST /manual-reply/takeover/:contactId, POST /manual-reply/release/:contactId
OpKinds == { "stop", "start", "takeover", "release" }

\* The operator makes a call once the previous one has been answered.
StartOp(kind, contactId) ==
  /\ Idle
  /\ opsUsed < MaxOps
  /\ ops = {}
  /\ opsUsed' = opsUsed + 1
  /\ ops' = ops \cup {NewOp(opsUsed + 1, kind, contactId)}
  /\ startCalled' = IF kind \in {"start", "release"}
                      THEN startCalled \cup {contactId} ELSE startCalled
  /\ UNCHANGED <<settings, clock, contacts, messages, ev, sent, pendingCreate, down, calls>>

\* PUT /bot/settings/:key, POST /bot/auto-reply/toggle: setSetting(key, value).
\* Writing the value a setting already has changes nothing and is left out.
SetSetting(key, value) ==
  /\ Idle
  /\ opsUsed < MaxOps
  /\ settings[key] # Some(value)
  /\ opsUsed' = opsUsed + 1
  /\ settings' = [settings EXCEPT ![key] = Some(value)]
  /\ UNCHANGED <<clock, contacts, messages, ev, ops, sent, startCalled, pendingCreate, down, calls>>

\* The call returned or threw: the route answers and nothing is left to do.
EndOp(o) == ops \ {o}

StepOp(o, r) == (ops \ {o}) \cup {r}

\* The list a call writes back, given the list it read.
OpList(kind, list, contactId) ==
  IF kind \in {"stop", "takeover"} THEN stopContactList(list, contactId)
  ELSE startContactList(list, contactId)

\* Whether the call goes on to setSetting after reading the list.
OpWrites(kind, list, contactId) ==
  IF kind \in {"stop", "takeover"} THEN stopContactWrites(list, contactId) ELSE TRUE

\* Contact.findByPk (takeover and release only), then the read of
\* stopContact / startContact
OpRead(o) ==
  /\ Idle /\ o \in ops /\ o.pc = "read"
  /\ LET stoppedContacts == getSettingOr(settings, "stopped_contacts", <<>>)
         notFound == o.kind \in {"takeover", "release"} /\ contacts[o.contact] = Null
     IN ops' = IF notFound THEN EndOp(o)
               ELSE IF OpWrites(o.kind, stoppedContacts, o.contact)
                 THEN StepOp(o, [o EXCEPT !.pc = "write",
                                          !.list = OpList(o.kind, stoppedContacts, o.contact)])
               ELSE IF o.kind = "takeover" THEN StepOp(o, [o EXCEPT !.pc = "meta"])
               ELSE EndOp(o)
  /\ UNCHANGED <<settings, clock, contacts, messages, ev, opsUsed, sent, startCalled, pendingCreate, down, calls>>

\* setSetting('stopped_contacts', ...) of stopContact / startContact
OpWrite(o) ==
  /\ Idle /\ o \in ops /\ o.pc = "write"
  /\ \E ok \in BOOLEAN :
       IF ok
         THEN /\ settings' = [settings EXCEPT !["stopped_contacts"] = Some(o.list)]
              /\ ops' = IF o.kind \in {"takeover", "release"}
                          THEN StepOp(o, [o EXCEPT !.pc = "meta", !.list = <<>>])
                          ELSE EndOp(o)
         ELSE /\ ops' = EndOp(o)
              /\ UNCHANGED settings
  /\ UNCHANGED <<clock, contacts, messages, ev, opsUsed, sent, startCalled, pendingCreate, down, calls>>

\* metadata.humanTakeover.enabled written by takeoverConversation / releaseConversation
TakeoverFlag(kind) == kind = "takeover"

\* contact.update({ metadata })
OpMeta(o) ==
  /\ Idle /\ o \in ops /\ o.pc = "meta"
  /\ contacts' = [contacts EXCEPT ![o.contact] =
                    Some([@[1] EXCEPT !.takeover = Some(TakeoverFlag(o.kind))])]
  /\ ops' = IF o.kind = "takeover"
                 /\ truthy(getSetting(settings, "human_takeover_enabled"))
              THEN StepOp(o, [o EXCEPT !.pc = "notify"])
              ELSE EndOp(o)
  /\ UNCHANGED <<settings, clock, messages, ev, opsUsed, sent, startCalled, pendingCreate, down, calls>>

\* sendManualReply(contactId, notificationMessage, userId): chat.sendMessage
OpNotify(o) ==
  /\ Idle /\ o \in ops /\ o.pc = "notify"
  /\ LET chatId == <<o.contact, "c.us">>
     IN \E ok \in BOOLEAN :
          IF ok /\ chatExists(chatId)
            THEN LET m == [ev |-> 0, to |-> chatId, kind |-> "takeoverNote", n |-> o.id]
                 IN /\ sent' = sent \cup {m}
                    /\ pendingCreate' = pendingCreate \cup {m}
                    /\ ops' = StepOp(o, [o EXCEPT !.pc = "notifySave"])
            ELSE /\ ops' = EndOp(o)
                 /\ UNCHANGED <<sent, pendingCreate>>
  /\ UNCHANGED <<settings, clock, contacts, messages, ev, opsUsed, startCalled, down, calls>>

\* sendManualReply: Message.create, Conversation.increment
OpNotifySave(o) ==
  /\ Idle /\ o \in ops /\ o.pc = "notifySave"
  /\ messages' = messages \cup
       { [ contact |-> o.contact, isFromMe |-> TRUE, isAiGenerated |-> FALSE,
           by |-> "sendManualReply", body |-> "takeoverNote", ev |-> 0, n |-> o.id ] }
  /\ contacts' = [contacts EXCEPT ![o.contact] = IncrementConversation(@)]
  /\ ops' = EndOp(o)
  /\ UNCHANGED <<settings, clock, ev, opsUsed, sent, startCalled, pendingCreate, down, calls>>

\* The account owner writes into a chat from the phone: the client raises
\* 'message_create' with fromMe for it, and the pipeline has sent nothing.
OwnMessage(to) ==
  /\ Idle
  /\ opsUsed < MaxOps
  /\ opsUsed' = opsUsed + 1
  /\ pendingCreate' = pendingCreate \cup
       { [ev |-> 0, to |-> to, kind |-> "own", n |-> opsUsed + 1] }
  /\ UNCHANGED <<settings, clock, contacts, messages, ev, ops, sent, startCalled, down, calls>>

\* gracefulShutdown: the client is logged out, the database connection closed
\* and the process exits; whatever was awaiting is abandoned.
Shutdown ==
  /\ ~down
  /\ down' = TRUE
  /\ UNCHANGED <<settings, clock, contacts, messages, ev, ops, opsUsed, sent,
                 startCalled, pendingCreate, calls>>

\* Time passes.
Tick ==
  /\ Idle
  /\ \E now \in ClockValues \ {clock} : clock' = now
  /\ UNCHANGED <<settings, contacts, messages, ev, ops, opsUsed, sent, startCalled, pendingCreate, down, calls>>

\* ------------------------------------------------------------ the system
\* No contact is known, nothing has arrived and nothing has been sent.
InitEmpty ==
  /\ contacts = [p \in Phones |-> Null]
  /\ messages = {}
  /\ ev = <<>>
  /\ ops = {}
  /\ opsUsed = 0
  /\ sent = {}
  /\ startCalled = {}
  /\ pendingCreate = {}
  /\ down = FALSE
  /\ calls = <<>>

\* The bot starts on a store in which initializeDefaults has run and in which
\* the operator may have edited the boolean settings.
Init ==
  /\ \E a, b, o \in BOOLEAN :
       settings = [DefaultSettings EXCEPT !["auto_reply_enabled"] = Some(a),
                                          !["business_hours_enabled"] = Some(b),
                                          !["out_of_office_enabled"] = Some(o)]
  /\ clock \in ClockValues
  /\ InitEmpty

\* The transport delivers an inbound event from a private chat; an event that
\* is self-authored or a status broadcast is dropped whatever it carries.
Inbound ==
  \/ \E from \in PrivateAddrs, body \in Bodies : Arrive(from, body, "none")
  \/ \E flag \in Flags \ {"none"} : Arrive(<<"a", "c.us">>, BodyHello, flag)

\* One step of the handler of an inbound event.
Handler ==
  \/ \E e \in DOMAIN ev : GetOrCreateContact(e)
  \/ \E e \in DOMAIN ev : SaveMessage(e)
  \/ \E e \in DOMAIN ev : CheckAutoReply(e)
  \/ \E e \in DOMAIN ev : CheckBusinessHoursStep(e)
  \/ \E e \in DOMAIN ev : CheckEligibility(e)
  \/ \E e \in DOMAIN ev : GenerateResponse(e)
  \/ \E e \in DOMAIN ev : SendStateTyping(e)
  \/ \E e \in DOMAIN ev : ClearState(e)
  \/ \E e \in DOMAIN ev : SendMessage(e)
  \/ \E e \in DOMAIN ev : SaveAIMessage(e)
  \/ \E e \in DOMAIN ev : StopContactRead(e)
  \/ \E e \in DOMAIN ev : StopContactWrite(e)

\* The pipeline under changing settings and a running clock.
Next ==
  \/ Inbound
  \/ Handler
  \/ \E m \in pendingCreate : MessageCreate(m)
  \/ \E key \in BoolKeys, value \in BOOLEAN : SetSetting(key, value)
  \/ Tick

Spec == Init /\ [][Next]_vars

\* The pipeline next to the dashboard: operators stop, start, take over and
\* release the private contacts while events are handled.
InitDashboard ==
  /\ Init
  /\ settings = DefaultSettings
  /\ clock = <<1, 10, 0>>

NextDashboard ==
  \/ \E body \in Bodies : Arrive(<<"a", "c.us">>, body, "none")
  \/ Handler
  \/ \E m \in pendingCreate : MessageCreate(m)
  \/ \E kind \in OpKinds, c \in {"a", "b"} : StartOp(kind, c)
  \/ \E o \in ops : OpRead(o)
  \/ \E o \in ops : OpWrite(o)
  \/ \E o \in ops : OpMeta(o)
  \/ \E o \in ops : OpNotify(o)
  \/ \E o \in ops : OpNotifySave(o)

SpecDashboard == InitDashboard /\ [][NextDashboard]_vars

\* Values of max_replies_per_contact: unlimited, one reply, the default.
ReplyCaps == { 0, 1, DefaultMaxReplies }

\* The pipeline in its host process: the operator has set a reply cap, the
\* account owner writes into chats, private and group chats write in, and the
\* process is shut down at some point.
InitHost ==
  /\ InitEmpty
  /\ \E cap \in ReplyCaps :
       settings = [DefaultSettings EXCEPT !["max_replies_per_contact"] = Some(cap)]
  /\ clock = <<1, 10, 0>>

HostAddrs == { <<"a", "c.us">>, <<"g", "g.us">> }

NextHost ==
  \/ \E from \in HostAddrs, body \in Bodies : Arrive(from, body, "none")
  \/ Handler
  \/ \E m \in pendingCreate : MessageCreate(m)
  \/ \E to \in HostAddrs : OwnMessage(to)
  \/ Shutdown

SpecHost == InitHost /\ [][NextHost]_vars

\* The pipeline alone under the default settings: private contacts write in
\* and nothing else happens.
NextContacts ==
  \/ \E from \in PrivateAddrs, body \in Bodies : Arrive(from, body, "none")
  \/ Handler
  \/ \E m \in pendingCreate : MessageCreate(m)

SpecContacts == InitDashboard /\ [][NextContacts]_vars

\* ---------------------------------------------- the stop-list on its own
\* Length of the stop-list the store holds when the service is called.
MaxListLen == 2

\* The lists stopContact and startContact leave behind hold an id once.
StopLists ==
  { l \in UNION { [1..n -> Phones] : n \in 0..MaxListLen } :
      \A i, j \in DOMAIN l : i # j => l[i] # l[j] }

\* stopContact every time pushes the id.
stopContact_AlwaysPush(s, contactId) ==
  [s EXCEPT !["stopped_contacts"] =
     Some(Append(getSettingOr(s, "stopped_contacts", <<>>), contactId))]

\* stopContact(contactId) from its read to its write, nothing in between
stopContact(s, contactId) ==
  LET stoppedContacts == getSettingOr(s, "stopped_contacts", <<>>)
  IN IF stopContactWrites(stoppedContacts, contactId)
       THEN [s EXCEPT !["stopped_contacts"] =
               Some(stopContactList(stoppedContacts, contactId))]
     ELSE s

\* startContact leaves the list as it is.
startContact_Keep(s, contactId) ==
  [s EXCEPT !["stopped_contacts"] = Some(getSettingOr(s, "stopped_contacts", <<>>))]

\* startContact(contactId) from its read to its write, nothing in between
startContact(s, contactId) ==
  [s EXCEPT !["stopped_contacts"] =
     Some(startContactList(getSettingOr(s, "stopped_contacts", <<>>), contactId))]

\* What is kept of an answered call: the list before and after it.
CallRecord(kind, contactId, s, t) ==
  [ kind |-> kind, contact |-> contactId,
    before |-> getSettingOr(s, "stopped_contacts", <<>>),
    after |-> getSettingOr(t, "stopped_contacts", <<>>) ]

\* POST /bot/contacts/:contactId/stop, answered before the next call is made
StopContactCall(contactId) ==
  /\ Idle
  /\ opsUsed < MaxOps
  /\ ops = {}
  /\ opsUsed' = opsUsed + 1
  /\ settings' = stopContact(settings, contactId)
  /\ calls' = Append(calls, CallRecord("stop", contactId, settings, settings'))
  /\ UNCHANGED <<clock, contacts, messages, ev, ops, sent, startCalled, pendingCreate, down>>

\* POST /bot/contacts/:contactId/start, answered before the next call is made
StartContactCall(contactId) ==
  /\ Idle
  /\ opsUsed < MaxOps
  /\ ops = {}
  /\ opsUsed' = opsUsed + 1
  /\ settings' = startContact(settings, contactId)
  /\ startCalled' = startCalled \cup {contactId}
  /\ calls' = Append(calls, CallRecord("start", contactId, settings, settings'))
  /\ UNCHANGED <<clock, contacts, messages, ev, ops, sent, pendingCreate, down>>

\* The settings service called on a store whose stop-list is any list.
InitStopList ==
  /\ InitEmpty
  /\ clock = <<1, 10, 0>>
  /\ \E v \in {Null} \cup { Some(l) : l \in StopLists } :
       settings = [DefaultSettings EXCEPT !["stopped_contacts"] = v]

NextStopList ==
  \/ \E c \in Phones : StopContactCall(c)
  \/ \E c \in Phones : StartContactCall(c)

SpecStopList == InitStopList /\ [][NextStopList]_vars

\* ------------------------------------------------ the generic admin routes
\* PUT /contacts/:id with the body { metadata: { humanTakeover: { enabled } } }:
\* contact.update(req.body) writes whatever columns the body names.
PutContact(contactId, enabled) ==
  /\ Idle
  /\ opsUsed < MaxOps
  /\ contacts[contactId] # Null
  /\ contacts[contactId][1].takeover # Some(enabled)
  /\ opsUsed' = opsUsed + 1
  /\ contacts' = [contacts EXCEPT ![contactId] =
                    Some([@[1] EXCEPT !.takeover = Some(enabled)])]
  /\ UNCHANGED <<settings, clock, messages, ev, ops, sent, startCalled, pendingCreate, down, calls>>

\* The pipeline next to an administrator who uses the generic routes: any
\* setting, stopped_contacts among them, and any column of a contact.
NextAdmin ==
  \/ \E body \in Bodies : Arrive(<<"a", "c.us">>, body, "none")
  \/ Handler
  \/ \E m \in pendingCreate : MessageCreate(m)
  \/ \E l \in StopLists : SetSetting("stopped_contacts", l)
  \/ \E c \in Phones, enabled \in BOOLEAN : PutContact(c, enabled)

SpecAdmin == InitDashboard /\ [][NextAdmin]_vars

\* ------------------------------------------------------ the prompt builder
\* Message rows of one contact and knowledge entries matching a keyword that
\* the store holds when the prompt is built.
MaxRows == 11
MaxEntries == 4

\* getConversationHistory(contactId, 10) and getRelevantKnowledge(prompt, limit = 3)
HistoryLimit == 10
KnowledgeLimit == 3

\* Values of settings.maxHistoryMessages in the active AI configuration: the
\* seeded value and one an operator has set.
ConfiguredHistory == { 1, 10 }

\* Array.prototype.reverse
reverse(list) == [i \in 1..Len(list) |-> list[Len(list) + 1 - i]]

\* findAll({ order: [[column, 'DESC']], limit }) on the rows in that order
findAllLimit(rowsDesc, limit) ==
  SubSeq(rowsDesc, 1, IF Len(rowsDesc) < limit THEN Len(rowsDesc) ELSE limit)

\* The k Message rows of the contact, most recent first; the rows with an even
\* timestamp are replies.
RowsDesc(k) == [i \in 1..k |-> [timestamp |-> k + 1 - i, isFromMe |-> (k + 1 - i) % 2 = 0]]

\* The j matching knowledge entries, most recently updated first.
EntriesDesc(j) == [i \in 1..j |-> [title |-> j + 1 - i]]

getConversationHistory(rowsDesc, limit) ==
  LET messages_ == reverse(findAllLimit(rowsDesc, limit))
  IN [i \in 1..Len(messages_) |->
        [ role |-> IF messages_[i].isFromMe THEN "assistant" ELSE "user",
          content |-> messages_[i].timestamp ]]

\* String.prototype.split(' ')
RECURSIVE split(_)
split(text) ==
  IF \A i \in DOMAIN text : text[i] # " " THEN <<text>>
  ELSE LET i == CHOOSE i \in DOMAIN text :
                  text[i] = " " /\ \A j \in 1..(i - 1) : text[j] # " "
       IN <<SubSeq(text, 1, i - 1)>> \o split(SubSeq(text, i + 1, Len(text)))

\* prompt.toLowerCase().split(' ').filter(word => word.length > 3)
keywordsOf(prompt) == SelectSeq(split(prompt), LAMBDA word : Len(word) > 3)

getRelevantKnowledge(prompt, entriesDesc, limit) ==
  IF keywordsOf(prompt) = <<>> THEN <<>> ELSE findAllLimit(entriesDesc, limit)

\* The sections of the prompt in the order they are appended.
buildContextualPrompt(config, prompt, contactName, rowsDesc, entriesDesc) ==
  LET knowledgeItems == getRelevantKnowledge(prompt, entriesDesc, KnowledgeLimit)
      history == getConversationHistory(rowsDesc, HistoryLimit)
  IN (IF config.systemPrompt THEN <<[section |-> "system", lines |-> <<>>]>> ELSE <<>>)
     \o (IF config.useKnowledgeBase /\ knowledgeItems # <<>>
           THEN <<[section |-> "knowledge", lines |-> knowledgeItems]>> ELSE <<>>)
     \o (IF config.useConversationHistory /\ history # <<>>
           THEN <<[section |-> "history", lines |-> history]>> ELSE <<>>)
     \o (IF contactName THEN <<[section |-> "context", lines |-> <<>>]>> ELSE <<>>)
     \o <<[section |-> "message", lines |-> <<prompt>>]>>
     \o <<[section |-> "task", lines |-> <<>>]>>

\* The active AI configurations an operator may have stored.
AIConfigs ==
  [ systemPrompt : BOOLEAN, useKnowledgeBase : BOOLEAN,
    useConversationHistory : BOOLEAN, maxHistoryMessages : ConfiguredHistory ]

\* The message bodies a prompt is built for; "hi" has no keyword.
PromptBodies == Bodies \cup { <<"h", "i">> }

\* generateWithGemini builds the prompt for one inbound message.
BuildPrompt(config, prompt, k, j) ==
  /\ Idle
  /\ calls = <<>>
  /\ calls' = <<[ kind |-> "buildContextualPrompt", config |-> config, body |-> prompt,
                  rows |-> k, entries |-> j,
                  prompt |-> buildContextualPrompt(config, prompt, TRUE,
                                                   RowsDesc(k), EntriesDesc(j)) ]>>
  /\ UNCHANGED <<settings, clock, contacts, messages, ev, ops, opsUsed, sent, startCalled, pendingCreate, down>>

NextPrompt ==
  \E config \in AIConfigs, prompt \in PromptBodies, k \in 0..MaxRows, j \in 0..MaxEntries :
    BuildPrompt(config, prompt, k, j)

SpecPrompt == InitDashboard /\ [][NextPrompt]_vars

\* ------------------------------------------------------ the timing helpers
\* Number of words of the longest text, and number of values Math.random()
\* is drawn from: 0, 1/JitterSteps, ..., (JitterSteps - 1)/JitterSteps.
MaxWords == 30
JitterSteps == 4

\* `parseInt(process.env.TYPING_SPEED_MIN) || 30`, `... || 80`: the defaults
minSpeed == 30
maxSpeed == 80
wordsPerMinute == 225

\* "w w ... w" with n words
TextOfWords(n) == [i \in 1..(IF n = 0 THEN 0 ELSE 2 * n - 1) |-> IF i % 2 = 1 THEN "w" ELSE " "]

Texts ==
  { TextOfWords(n) : n \in 0..MaxWords }
    \cup { BodyStop, <<" ", "w", " ", "\n", "w", "\t">> }

\* text.split(/\s+/).length: one more than the number of whitespace runs
splitWhitespaceLength(text) ==
  1 + Cardinality({ i \in DOMAIN text :
                      isWhitespace(text[i]) /\ (i = 1 \/ ~isWhitespace(text[i - 1])) })

\* The unclamped time.
clamp_Identity(lo, x, hi) == x

\* Math.max(lo, Math.min(x, hi))
clamp(lo, x, hi) ==
  LET m == IF x < hi THEN x ELSE hi
  IN IF lo > m THEN lo ELSE m

\* Times are counted in 1/den of a millisecond, den chosen so that every
\* division of the computation is exact; random = k / JitterSteps.
calculateTypingTime(text, typingSpeed, k) ==
  LET den == typingSpeed * 5 * JitterSteps
      \* timePerChar = (60 / typingSpeed) * 1000; baseTime = text.length * timePerChar
      baseTime == Len(text) * 60 * 1000 * 5 * JitterSteps
      variance == baseTime \div 5
      finalTime == baseTime + ((k * variance * 2) \div JitterSteps - variance)
  IN [units |-> clamp(1000 * den, finalTime, 10000 * den), den |-> den]

calculateReadingTime(text, k) ==
  LET den == wordsPerMinute * 10 * JitterSteps
      words == splitWhitespaceLength(text)
      \* readingTime = (words / wordsPerMinute) * 60 * 1000
      readingTime == words * 60 * 1000 * 10 * JitterSteps
      variance == (readingTime * 3) \div 10
      finalTime == readingTime + ((k * variance * 2) \div JitterSteps - variance)
  IN [units |-> clamp(500 * den, finalTime, 5000 * den), den |-> den]

\* simulateTyping(chat, message): calculateTypingTime(message), the speed drawn
\* by Math.floor(Math.random() * (maxSpeed - minSpeed + 1)) + minSpeed
CalculateTypingTime(text, typingSpeed, k) ==
  /\ Idle
  /\ calls = <<>>
  /\ calls' = <<[ kind |-> "calculateTypingTime", text |-> text, speed |-> typingSpeed,
                  random |-> k, time |-> calculateTypingTime(text, typingSpeed, k) ]>>
  /\ UNCHANGED <<settings, clock, contacts, messages, ev, ops, opsUsed, sent, startCalled, pendingCreate, down>>

\* simulateReading(message): calculateReadingTime(message)
CalculateReadingTime(text, k) ==
  /\ Idle
  /\ calls = <<>>
  /\ calls' = <<[ kind |-> "calculateReadingTime", text |-> text, speed |-> wordsPerMinute,
                  random |-> k, time |-> calculateReadingTime(text, k) ]>>
  /\ UNCHANGED <<settings, clock, contacts, messages, ev, ops, opsUsed, sent, startCalled, pendingCreate, down>>

NextTiming ==
  \/ \E text \in Texts, typingSpeed \in minSpeed..maxSpeed, k \in 0..(JitterSteps - 1) :
       CalculateTypingTime(text, typingSpeed, k)
  \/ \E text \in Texts, k \in 0..(JitterSteps - 1) : CalculateReadingTime(text, k)

SpecTiming == InitDashboard /\ [][NextTiming]_vars

\* ----------------------------------------------------------- chunkMessage
\* Length of the longest text and the largest maxLength the function is
\* called with.
MaxTextLen == 6
MaxLimit == 4

\* Texts of a letter, blanks and full stops.
ChunkTexts == UNION { [1..n -> {"a", " ", "."}] : n \in 0..MaxTextLen }

\* [.!?]
isTerminator(ch) == ch \in {".", "!", "?"}

\* The least element of a non-empty set of positions.
first(S) == CHOOSE p \in S : \A q \in S : p <= q

\* text.match(/[^.!?]+[.!?]+/g) from position i on: the next match starts at
\* the first character that is no terminator, takes the run of such
\* characters and then the run of terminators; a run that reaches the end of
\* the text without a terminator matches nothing.
RECURSIVE matchSentences(_, _)
matchSentences(text, i) ==
  LET n == Len(text)
      starts == { p \in i..n : ~isTerminator(text[p]) }
  IN IF starts = {} THEN <<>>
     ELSE LET p == first(starts)
              terms == { t \in p..n : isTerminator(text[t]) }
          IN IF terms = {} THEN <<>>
             ELSE LET t == first(terms)
                      after == { x \in t..n : ~isTerminator(text[x]) }
                      r == IF after = {} THEN n ELSE first(after) - 1
                  IN <<SubSeq(text, p, r)>> \o matchSentences(text, r + 1)

\* `if (currentChunk) chunks.push(currentChunk.trim())`
pushChunk(chunks, currentChunk) ==
  IF currentChunk # <<>> THEN Append(chunks, trim(currentChunk)) ELSE chunks

\* The loop that never starts a new chunk.
RECURSIVE packSentences_NoFlush(_, _, _, _)
packSentences_NoFlush(sentences, currentChunk, chunks, maxLength) ==
  IF sentences = <<>> THEN pushChunk(chunks, currentChunk)
  ELSE packSentences_NoFlush(Tail(sentences), currentChunk \o Head(sentences),
                             chunks, maxLength)

\* `for (const sentence of sentences) { ... }` and the push after the loop
RECURSIVE packSentences(_, _, _, _)
packSentences(sentences, currentChunk, chunks, maxLength) ==
  IF sentences = <<>> THEN pushChunk(chunks, currentChunk)
  ELSE LET sentence == Head(sentences)
       IN IF Len(currentChunk \o sentence) <= maxLength
            THEN packSentences(Tail(sentences), currentChunk \o sentence, chunks, maxLength)
          ELSE packSentences(Tail(sentences), sentence,
                             pushChunk(chunks, currentChunk), maxLength)

\* `text.match(...) || [text]`
sentencesOf(text) ==
  IF matchSentences(text, 1) = <<>> THEN <<text>> ELSE matchSentences(text, 1)

chunkMessage(text, maxLength) ==
  IF Len(text) <= maxLength THEN <<text>>
  ELSE packSentences(sentencesOf(text), <<>>, <<>>, maxLength)

\* handleIncomingMessage: chunkMessage(aiResponse, 500), here with small limits
ChunkMessage(text, maxLength) ==
  /\ Idle
  /\ calls = <<>>
  /\ calls' = <<[ kind |-> "chunkMessage", text |-> text, maxLength |-> maxLength,
                  chunks |-> chunkMessage(text, maxLength) ]>>
  /\ UNCHANGED <<settings, clock, contacts, messages, ev, ops, opsUsed, sent, startCalled, pendingCreate, down>>

NextChunk ==
  \E text \in ChunkTexts, maxLength \in 1..MaxLimit : ChunkMessage(text, maxLength)

SpecChunk == InitDashboard /\ [][NextChunk]_vars

\* ----------------------------------------------------- initializeDefaults
\* The keys of `defaults` the model has, in the order of Object.entries.
DefaultKeys ==
  << "auto_reply_enabled", "business_hours_enabled", "out_of_office_enabled",
     "max_replies_per_contact", "reply_in_groups", "human_takeover_enabled" >>

\* A create that replaces the row of the key.
createSetting_Upsert(s, key, value) ==
  [ok |-> TRUE, settings |-> [s EXCEPT ![key] = Some(value)]]

\* BotSettings.create({ key, value, description }): `key` is unique, so the
\* insert is refused when a row of the key exists.
createSetting(s, key, value) ==
  IF s[key] # Null THEN [ok |-> FALSE, settings |-> s]
  ELSE [ok |-> TRUE, settings |-> [s EXCEPT ![key] = Some(value)]]

\* What is kept of a run of initializeDefaults that has ended.
InitRecord(o, result, after) ==
  [kind |-> "initializeDefaults", result |-> result, before |-> o.before, after |-> after]

\* initializeApp at start-up, POST /bot/settings/initialize later on
StartInitialize ==
  /\ Idle
  /\ opsUsed < MaxOps
  /\ ops = {}
  /\ opsUsed' = opsUsed + 1
  /\ ops' = {[id |-> opsUsed + 1, kind |-> "initialize", key |-> 1, pc |-> "find",
              before |-> settings]}
  /\ UNCHANGED <<settings, clock, contacts, messages, ev, sent, startCalled, pendingCreate, down, calls>>

\* `const exists = await BotSettings.findOne({ where: { key } })`; after the
\* last key the run returns.
InitializeFind(o) ==
  /\ Idle /\ o \in ops /\ o.kind = "initialize" /\ o.pc = "find"
  /\ LET exists == settings[DefaultKeys[o.key]] # Null
         last == o.key = Len(DefaultKeys)
     IN IF ~exists THEN /\ ops' = {[o EXCEPT !.pc = "create"]}
                        /\ UNCHANGED calls
        ELSE IF last THEN /\ ops' = {}
                          /\ calls' = Append(calls, InitRecord(o, "ok", settings))
        ELSE /\ ops' = {[o EXCEPT !.key = @ + 1]}
             /\ UNCHANGED calls
  /\ UNCHANGED <<settings, clock, contacts, messages, ev, opsUsed, sent, startCalled, pendingCreate, down>>

\* `await BotSettings.create(...)`: a refused insert rejects the whole run.
InitializeCreate(o) ==
  /\ Idle /\ o \in ops /\ o.kind = "initialize" /\ o.pc = "create"
  /\ LET key == DefaultKeys[o.key]
         created == createSetting(settings, key, DefaultSettings[key][1])
         last == o.key = Len(DefaultKeys)
     IN /\ settings' = created.settings
        /\ IF ~created.ok
             THEN /\ ops' = {}
                  /\ calls' = Append(calls, InitRecord(o, "error", settings'))
           ELSE IF last
             THEN /\ ops' = {}
                  /\ calls' = Append(calls, InitRecord(o, "ok", settings'))
           ELSE /\ ops' = {[o EXCEPT !.key = @ + 1, !.pc = "find"]}
                /\ UNCHANGED calls
  /\ UNCHANGED <<clock, contacts, messages, ev, opsUsed, sent, startCalled, pendingCreate, down>>

\* The store at a boot: every default is absent or present, the boolean
\* settings with either value.
InitStore ==
  /\ InitEmpty
  /\ clock = <<1, 10, 0>>
  /\ \E present \in SUBSET { DefaultKeys[i] : i \in DOMAIN DefaultKeys }, b \in BOOLEAN :
       settings = [ k \in DOMAIN DefaultSettings |->
                      IF k \notin present THEN Null
                      ELSE IF k \in BoolKeys THEN Some(b) ELSE DefaultSettings[k] ]

NextStore ==
  \/ StartInitialize
  \/ \E o \in ops : InitializeFind(o)
  \/ \E o \in ops : InitializeCreate(o)
  \/ \E key \in BoolKeys, value \in BOOLEAN : SetSetting(key, value)

SpecStore == InitStore /\ [][NextStore]_vars

\* ------------------------------------------------- recording under failure
\* saveMessage(message, contact.id) when Message.create rejects: the catch
\* block of saveMessage logs the error and the handler goes on to its checks.
SaveMessageFails(e) ==
  /\ Running(e) /\ ev[e].pc = "save"
  /\ ev' = [ev EXCEPT ![e].pc = "autoReply"]
  /\ UNCHANGED <<settings, clock, contacts, messages, ops, opsUsed, sent, startCalled, pendingCreate, down, calls>>

\* The pipeline over a store whose Message.create can reject.
NextRecord ==
  \/ Inbound
  \/ Handler
  \/ \E m \in pendingCreate : MessageCreate(m)
  \/ \E e \in DOMAIN ev : SaveMessageFails(e)

SpecRecord == Init /\ [][NextRecord]_vars

\* ================================================================= claims
Actionable(e) == ev[e].flag = "none"

Done(e) == ev[e].pc = "done"

SentBy(e) == { m \in sent : m.ev = e }

stoppedNow == getSettingOr(settings, "stopped_contacts", <<>>)

\* The handler of e has begun its decision checks (the auto-reply check is the
\* first one after the contact and the inbound message were stored).
StartedChecks(e) == Len(ev[e].checks) >= 2

\* The handler of e has decided and has no stop-list write ahead of it: it has
\* returned, or it is generating or delivering an AI reply.
DecisionFinished(e) ==
  \/ Done(e)
  \/ ev[e].kind = "ai" /\ ev[e].pc \in {"ai", "typing", "clear", "send", "saveAI"}

\* C1: two inbound events of one contact are handled one after the other: the
\* later one does not start its decision checks before the earlier one has
\* finished its decision and state mutation, and no reply to the earlier one
\* is sent after the later one's reply began composing.
C1_PerContactSerialized ==
  \A e1, e2 \in DOMAIN ev :
    (e1 < e2 /\ Actionable(e1) /\ Actionable(e2) /\ ev[e1].from = ev[e2].from)
      => /\ StartedChecks(e2) => DecisionFinished(e1)
         /\ ~ev[e1].late

Sender(e) == extractPhoneNumber(ev[e].from)

StopAcks(e) == { m \in SentBy(e) : m.kind = "stopAck" }

\* C2: a contact that sent a stop keyword (any case, surrounding blanks
\* trimmed, exact match) is in stopped_contacts once the message has been
\* handled, and no message of a contact that is on the list when the message
\* arrives leads to a call of aiService.generateResponse, as long as
\* startContact was not called for the contact.
C2_StopKeywordOptsOut ==
  \A e \in DOMAIN ev :
    (Actionable(e) /\ Sender(e) \notin startCalled)
      => /\ (checkStopKeyword(ev[e].body) /\ Done(e))
               => listIncludes(stoppedNow, Sender(e))
         /\ ev[e].listed => ~ev[e].aiCalled

\* C3: a message of a contact that is on the stop-list is never answered by
\* the AI; and when a stop keyword of a contact was acknowledged and a "hello"
\* of the same contact arrived after it, the acknowledgment was sent once, the
\* contact is on the list, the "hello" was skipped as stop-listed and no AI
\* call was made for it.
C3_StopThenHello ==
  /\ \A e \in DOMAIN ev :
       (Actionable(e) /\ ev[e].listed /\ Sender(e) \notin startCalled)
         => ev[e].kind # "ai" /\ ~ev[e].aiCalled
  /\ \A e1, e2 \in DOMAIN ev :
       ( /\ e1 < e2 /\ ev[e1].from = ev[e2].from
         /\ Actionable(e1) /\ Actionable(e2)
         /\ checkStopKeyword(ev[e1].body) /\ ev[e1].outcome = "stop-ack"
         /\ ev[e2].body = BodyHello /\ Done(e2)
         /\ Sender(e1) \notin startCalled )
         => /\ Cardinality(StopAcks(e1)) = 1
            /\ listIncludes(stoppedNow, Sender(e1))
            /\ ev[e2].outcome = "Contact has stopped bot"
            /\ ~ev[e2].aiCalled

\* C4: nothing is sent by the handler of a message whose sender was on the
\* stop-list when the message arrived.
C4_NothingSentToStopped ==
  \A m \in sent : m.ev \in DOMAIN ev => ~ev[m.ev].listed

TakenOver(phone) ==
  contacts[phone] # Null /\ contacts[phone][1].takeover = Some(TRUE)

\* C5: no step of an inbound-event handler hands a message to the transport
\* while the takeover flag of the contact is set.
C5_NoReplyWhileTakenOver ==
  [][ \A e \in DOMAIN ev :
        (ev'[e].chunk > ev[e].chunk) => ~TakenOver(Sender(e)) ]_vars


\* The checks of handleIncomingMessage in the order of the code.
CheckOrder ==
  << "not-actionable", "auto-reply", "business-hours", "eligibility",
     "stop-keyword", "require-human" >>

\* The check of event e that matched, or None.
Matched(e) ==
  LET cs == ev[e].checks
  IN IF cs # <<>> /\ cs[Len(cs)][2] THEN cs[Len(cs)][1] ELSE None

SentKinds(e) == { m.kind : m \in SentBy(e) }

InStopContact(e) == ev[e].pc \in {"stopRead", "stopWrite"} \/ ev[e].stopDone

\* What an event may have done, given the check that decided it.
EffectsAllowed(e) ==
  LET m == Matched(e)
  IN /\ m \in {"not-actionable", "auto-reply", "eligibility"}
          => SentBy(e) = {} /\ ~ev[e].aiCalled /\ ~InStopContact(e)
     /\ m = "business-hours"
          => SentKinds(e) \subseteq {"ooo"} /\ ~ev[e].aiCalled /\ ~InStopContact(e)
     /\ m = "stop-keyword" => SentKinds(e) \subseteq {"stopAck"} /\ ~ev[e].aiCalled
     /\ m = "require-human" => SentKinds(e) \subseteq {"humanAck"} /\ ~ev[e].aiCalled
     /\ m = None
          => /\ SentKinds(e) \subseteq {"ai"} /\ ~InStopContact(e)
             /\ ev[e].aiCalled => Len(ev[e].checks) = Len(CheckOrder)

\* C6: the checks of an event are evaluated in the order self-authored/status,
\* auto-reply disabled, outside business hours, eligibility, stop keyword,
\* needs-human keyword, AI reply; no check is evaluated after one that matched,
\* and the event has no effect (send, stop-listing, AI call) of a check other
\* than the one that decided it.
C6_FixedOrderFirstMatchWins ==
  \A e \in DOMAIN ev :
    LET cs == ev[e].checks
    IN /\ Len(cs) <= Len(CheckOrder)
       /\ \A i \in 1..Len(cs) : cs[i][1] = CheckOrder[i]
       /\ \A i \in 1..Len(cs) : cs[i][2] => i = Len(cs)
       /\ EffectsAllowed(e)

\* A stop keyword that arrived outside business hours was answered with the
\* out-of-office message only: the contact was not stop-listed.
C6_Witness ==
  \E e \in DOMAIN ev :
    /\ Done(e) /\ checkStopKeyword(ev[e].body)
    /\ Matched(e) = "business-hours" /\ ev[e].outcome = "out-of-office"
    /\ SentKinds(e) = {"ooo"}
    /\ ~listIncludes(stoppedNow, Sender(e))

AutoReplyOff == settings["auto_reply_enabled"] = Some(FALSE)

BotRows(e) == { row \in messages : row.ev = e /\ row.isFromMe }

\* C8: an event answered with the out-of-office message has sent one message
\* and has one bot-authored Message row (isFromMe = true) once it is handled.
C8_OneRowPerOutOfOffice ==
  \A e \in DOMAIN ev :
    (Done(e) /\ ev[e].outcome = "out-of-office")
      => Cardinality(SentBy(e)) = 1 /\ Cardinality(BotRows(e)) = 1

\* C9: a stop or handoff acknowledgment is in the transport only when the
\* stopContact call of its event has returned normally.
C9_AckAfterStopContact ==
  \A m \in sent :
    (m.ev \in DOMAIN ev /\ m.kind \in {"stopAck", "humanAck"}) => ev[m.ev].stopDone

Quiescent == ops = {} /\ \A e \in DOMAIN ev : Done(e)

\* C10: once every call has returned, the stop-list holds every contact whose
\* stopContact call returned normally and for whom startContact was not called.
C10_NoLostUpdate ==
  Quiescent =>
    \A e \in DOMAIN ev :
      (ev[e].stopDone /\ Sender(e) \notin startCalled)
        => listIncludes(stoppedNow, Sender(e))

\* The ways an invocation of handleIncomingMessage ends.
TerminalOutcomes ==
  { "not-actionable", "auto-reply-disabled", "outside-business-hours",
    "out-of-office", "Auto-reply is disabled", "Outside business hours",
    "Max replies reached for today", "Contact has stopped bot",
    "Group replies disabled", "stop-ack", "human-ack", "no-ai-response",
    "ai-reply", "error" }

\* C11: no invocation of handleIncomingMessage rejects: whatever step failed
\* (store, transport, AI call), the invocation has ended in one of its
\* terminal outcomes, the logged "error" among them.
C11_NeverRaises ==
  \A e \in DOMAIN ev :
    /\ ev[e].outcome # "rejected"
    /\ Done(e) => ev[e].outcome \in TerminalOutcomes

\* The send of the second chunk of an AI reply failed and was logged.
C11_Witness ==
  \E e \in DOMAIN ev :
    /\ Done(e) /\ ev[e].outcome = "error"
    /\ ev[e].aiCalled /\ ev[e].chunk = 1

\* C12: an AI reply whose delivery ended in a logged error has handed none of
\* its chunks to the transport.
C12_NoPartialReply ==
  \A e \in DOMAIN ev :
    (Done(e) /\ ev[e].kind = "ai" /\ ev[e].outcome = "error") => SentBy(e) = {}

\* The delivery of the AI reply of event e stopped after at least one chunk:
\* a send failed, or the process was shut down.
Aborted(e) ==
  /\ ev[e].kind = "ai" /\ ev[e].chunk >= 1
  /\ \/ Done(e) /\ ev[e].outcome = "error"
     \/ down /\ ~Done(e) /\ ev[e].chunk < NumChunks(ev[e].resp)

Recorded(m) ==
  \E row \in messages : row.isFromMe /\ row.ev = m.ev /\ row.n = m.n

\* C13: when the delivery of an AI reply was aborted part-way, every chunk
\* that was handed to the transport has a bot-authored Message row.
C13_SentChunksRecorded ==
  \A e \in DOMAIN ev :
    (Aborted(e) /\ (down \/ pendingCreate = {}))
      => \A m \in SentBy(e) : Recorded(m)

\* C14: an event decided by the needs-human check (eligible contact, body
\* contains a needs-human keyword and is no stop keyword) has, once handled,
\* sent the handoff acknowledgment and put its contact on the stop-list, and
\* no later message of that contact has led to an AI call, as long as
\* startContact was not called for the contact.
C14_HandoffStopsBot ==
  \A e \in DOMAIN ev :
    (Done(e) /\ Matched(e) = "require-human" /\ Sender(e) \notin startCalled)
      => /\ SentKinds(e) = {"humanAck"}
         /\ listIncludes(stoppedNow, Sender(e))
         /\ \A e2 \in DOMAIN ev :
              (e2 > e /\ ev[e2].from = ev[e].from) => ~ev[e2].aiCalled

\* The inbound events, other than e, that the pipeline has sent an automated
\* reply for to the chat `from`.
RepliedEvents(from, e) ==
  { m.ev : m \in { x \in sent : x.to = from /\ x.ev # e /\ x.ev # 0 } }

\* C15: with a cap max_replies_per_contact > 0, no handler hands a message to
\* the transport for a contact that has already been sent automated replies
\* for as many events as the cap (all events of a behaviour are of one day).
C15_ReplyCapEnforced ==
  [][ \A e \in DOMAIN ev :
        (ev'[e].chunk > ev[e].chunk)
          => LET cap == getSettingOr(settings, "max_replies_per_contact", 0)
             IN cap > 0 => Cardinality(RepliedEvents(ev[e].from, e)) < cap ]_vars

\* C16: while reply_in_groups is off, the handler of a message from a group
\* chat never gets past the eligibility check: it sends nothing and makes no
\* AI call.
C16_NoGroupReply ==
  \A e \in DOMAIN ev :
    (isGroupId(ev[e].from) /\ ~truthy(getSetting(settings, "reply_in_groups")))
      => /\ SentBy(e) = {} /\ ~ev[e].aiCalled /\ ev[e].kind = None
         /\ (Done(e) /\ Len(ev[e].checks) >= 4)
              => ev[e].outcome = "Group replies disabled"

\* C17: once an event is handled and the listeners have run, every message
\* its handler handed to the transport has a bot-authored Message row; and a
\* Message row has isAiGenerated = true only if it records an AI reply.
C17_SendsRecordedAiFlag ==
  /\ \A row \in messages : row.isAiGenerated => row.body = "ai"
  /\ \A e \in DOMAIN ev :
       (Done(e) /\ Idle) => \A m \in SentBy(e) : Recorded(m)

\* Outcomes in which the handler returned without an action.
SkipOutcomes ==
  { "not-actionable", "auto-reply-disabled", "outside-business-hours",
    "Auto-reply is disabled", "Outside business hours",
    "Max replies reached for today", "Contact has stopped bot",
    "Group replies disabled", "no-ai-response" }

\* The message an outcome stands for.
ReplyKind(outcome) ==
  CASE outcome = "out-of-office" -> "ooo"
    [] outcome = "stop-ack" -> "stopAck"
    [] outcome = "human-ack" -> "humanAck"
    [] outcome = "ai-reply" -> "ai"
    [] OTHER -> None

\* C18: an event has one terminal action and at most one reply: its handler
\* sends messages of one kind only, a template message (out-of-office, stop
\* or handoff acknowledgment) once and an AI reply as the chunks 1..k of one
\* response, each once; a handled event that was skipped has sent nothing and
\* one that ended in a reply has sent that reply and no other.
C18_OneActionPerEvent ==
  \A e \in DOMAIN ev :
    /\ Cardinality(SentKinds(e)) <= 1
    /\ SentKinds(e) \cap {"ooo", "stopAck", "humanAck"} # {}
         => Cardinality(SentBy(e)) = 1
    /\ { m.n : m \in SentBy(e) } = 1..Cardinality(SentBy(e))
    /\ Cardinality(SentBy(e)) = ev[e].chunk
    /\ ev[e].resp # None => Cardinality(SentBy(e)) <= NumChunks(ev[e].resp)
    /\ Done(e) =>
         /\ ev[e].outcome \in SkipOutcomes => SentBy(e) = {}
         /\ ReplyKind(ev[e].outcome) # None
              => SentKinds(e) = {ReplyKind(ev[e].outcome)}

\* An AI reply of two chunks was delivered for one event.
C18_Witness ==
  \E e \in DOMAIN ev :
    /\ Done(e) /\ ev[e].outcome = "ai-reply"
    /\ Cardinality(SentBy(e)) = 2 /\ SentKinds(e) = {"ai"}

\* One step of the handler of event e.
StepOf(e) ==
  \/ GetOrCreateContact(e) \/ SaveMessage(e) \/ CheckAutoReply(e)
  \/ CheckBusinessHoursStep(e) \/ CheckEligibility(e) \/ GenerateResponse(e)
  \/ SendStateTyping(e) \/ ClearState(e) \/ SendMessage(e)
  \/ SaveAIMessage(e) \/ StopContactRead(e) \/ StopContactWrite(e)

OnlyEventOf(e) == \A e2 \in DOMAIN ev : e2 # e => ev[e2].from # ev[e].from

C20_GetOrCreateContact ==
  [][ \A e \in DOMAIN ev :
        (ev[e].pc = "contact" /\ ev'[e].pc = "save")
          => LET before == contacts[Sender(e)]
                 after == contacts'[Sender(e)]
             IN /\ after # Null
                /\ after[1].conv # Null
                /\ IF before = Null THEN after[1].conv = Some(1)
                   ELSE /\ before[1].conv # Null
                        /\ after[1].conv = Some(before[1].conv[1] + 1)
                        /\ after[1].isGroup = before[1].isGroup ]_vars

\* C21: every Contact has a Conversation, whichever path created the Contact
\* (first inbound event, first outbound event) and whichever step failed.
C21_ContactHasConversation ==
  \A p \in Phones : contacts[p] # Null => contacts[p][1].conv # Null

\* messageCount of the Conversation of p, 0 while there is none.
CountOf(cs, p) == IF cs[p] = Null \/ cs[p][1].conv = Null THEN 0 ELSE cs[p][1].conv[1]

\* The inbound messages received from p and the outbound messages sent to p.
InboundFrom(p) == { e \in DOMAIN ev : Sender(e) = p /\ ev[e].cid # None }

OutboundTo(p) == { m \in sent : extractPhoneNumber(m.to) = p }

\* C22: once every handler and listener has finished, the messageCount of a
\* contact is the number of inbound messages received from it plus the number
\* of outbound messages sent to it; and no step lowers a messageCount.
C22_CountsEveryMessage ==
  /\ [](\A p \in Phones :
          (Quiescent /\ Idle /\ InboundFrom(p) # {})
            => CountOf(contacts, p)
                 = Cardinality(InboundFrom(p)) + Cardinality(OutboundTo(p)))
  /\ [][ \A p \in Phones : CountOf(contacts', p) >= CountOf(contacts, p) ]_vars

\* Number of times id is in the list.
Occurrences(list, id) == Cardinality({ i \in DOMAIN list : list[i] = id })

\* The ids of the list other than id, in their order.
OtherIds(list, id) == SelectSeq(list, LAMBDA x : x # id)

\* The call after call i repeats it.
Repeated(i) ==
  /\ i + 1 \in DOMAIN calls
  /\ calls[i + 1].kind = calls[i].kind
  /\ calls[i + 1].contact = calls[i].contact

RoundTrip(i) ==
  /\ i + 1 \in DOMAIN calls
  /\ calls[i].kind = "stop" /\ calls[i + 1].kind = "start"
  /\ calls[i + 1].contact = calls[i].contact

\* The decision shouldReplyToContact takes for a private contact on the list.
EligibilityOn(list, contactId) ==
  shouldReplyToContact([settings EXCEPT !["stopped_contacts"] = Some(list)], clock,
                       [id |-> contactId, isGroup |-> FALSE])

Completes(o) ==
  /\ o \in ops /\ ops' = {}
  /\ \/ o.kind = "release" /\ o.pc = "meta"
     \/ o.kind = "takeover" /\ o.pc \in {"meta", "notifySave"}

\* C25: when takeoverConversation returns, the takeover flag of the contact
\* is enabled and the contact is on the stop-list; when releaseConversation
\* returns, the flag is disabled and the contact is not on the list.
C25_TakeoverAgreesWithStopList ==
  [][ \A o \in ops :
        Completes(o)
          => LET flag == contacts'[o.contact][1].takeover
                 onList == listIncludes(getSettingOr(settings', "stopped_contacts", <<>>),
                                        o.contact)
             IN IF o.kind = "takeover" THEN flag = Some(TRUE) /\ onList
                ELSE flag = Some(FALSE) /\ ~onList ]_vars

TakeoverFlagOf(cs, p) == IF cs[p] = Null THEN Null ELSE cs[p][1].takeover

\* The step is taken inside stopContact or startContact, or inside
\* takeoverConversation or releaseConversation.
EntryPointStep ==
  \/ \E e \in DOMAIN ev : StopContactWrite(e)
  \/ \E o \in ops : OpWrite(o)
  \/ \E o \in ops : OpMeta(o)
  \/ \E c \in Phones : StopContactCall(c)
  \/ \E c \in Phones : StartContactCall(c)

\* C26: a step that changes stopped_contacts or the takeover flag of a
\* contact is a step of stopContact, startContact, takeoverConversation or
\* releaseConversation.
C26_OnlyEntryPointsMutate ==
  [][ ( \/ getSettingOr(settings', "stopped_contacts", <<>>)
             # getSettingOr(settings, "stopped_contacts", <<>>)
        \/ \E p \in Phones : TakeoverFlagOf(contacts', p) # TakeoverFlagOf(contacts, p) )
      => EntryPointStep ]_vars

\* The text is empty or has whitespace only.
WhitespaceOnly(text) == \A i \in DOMAIN text : text[i] \in {" ", "\t", "\n"}

\* C27: a handler never goes on with an AI response that is empty or
\* whitespace-only; the step that receives the response sends nothing and
\* records nothing, and the event ends as "no-ai-response" having sent
\* nothing, shown no typing signal and recorded no bot-authored Message.
C27_BlankResponseIsSkip ==
  /\ [](\A e \in DOMAIN ev :
          /\ ev[e].resp # None => ~WhitespaceOnly(AiText(ev[e].resp))
          /\ ev[e].outcome = "no-ai-response"
               => /\ Done(e) /\ ev[e].aiCalled
                  /\ SentBy(e) = {} /\ ev[e].chunk = 0
                  /\ ~ev[e].typed /\ BotRows(e) = {}
                  /\ ~ev[e].stopDone)
  /\ [][ \A e \in DOMAIN ev :
           (ev[e].pc = "ai" /\ ev'[e].pc # "ai")
             => sent' = sent /\ messages' = messages /\ settings' = settings ]_vars

\* The AI returned nothing for a "hello": the inbound message is stored and
\* nothing else happened, as for a contact on the stop-list.
C27_Witness ==
  \E e \in DOMAIN ev :
    /\ Done(e) /\ ev[e].outcome = "no-ai-response" /\ ev[e].body = BodyHello
    /\ \E row \in messages : row.ev = e /\ ~row.isFromMe
    /\ SentBy(e) = {} /\ BotRows(e) = {} /\ ~ev[e].typed

\* C28: an event whose completion call failed has ended in the logged error
\* with nothing sent and no bot-authored Message; and the completion is
\* called at most once per event: a handler that has made the call is never
\* again at the call.
C28_CompletionFailureNoRetry ==
  \A e \in DOMAIN ev :
    /\ ev[e].aiFailed
         => /\ Done(e) /\ ev[e].outcome = "error"
            /\ SentBy(e) = {} /\ BotRows(e) = {} /\ ~ev[e].typed
    /\ ev[e].pc = "ai" => ~ev[e].aiCalled
    /\ ev[e].aiFailed => ev[e].aiCalled

\* The completion call for a "hello" failed: the inbound message is stored,
\* the error is logged and nothing was sent.
C28_Witness ==
  \E e \in DOMAIN ev :
    /\ ev[e].aiFailed /\ Done(e) /\ ev[e].outcome = "error"
    /\ ev[e].body = BodyHello
    /\ \E row \in messages : row.ev = e /\ ~row.isFromMe
    /\ SentBy(e) = {}

\* The lines of a section of the prompt, <<>> when the section is absent.
SectionLines(prompt, name) ==
  IF \E i \in DOMAIN prompt : prompt[i].section = name
    THEN prompt[CHOOSE i \in DOMAIN prompt : prompt[i].section = name].lines
  ELSE <<>>

Smaller(a, b) == IF a < b THEN a ELSE b

\* C29: a prompt holds the new message body as it is, at most KnowledgeLimit
\* knowledge entries and at most settings.maxHistoryMessages history
\* messages, which are the most recent ones, oldest first.
C29_PromptBounded ==
  \A i \in DOMAIN calls :
    calls[i].kind = "buildContextualPrompt"
      => LET c == calls[i]
             history == SectionLines(c.prompt, "history")
             M == c.config.maxHistoryMessages
         IN /\ SectionLines(c.prompt, "message") = <<c.body>>
            /\ Len(SectionLines(c.prompt, "knowledge")) <= KnowledgeLimit
            /\ Len(history) <= M
            /\ c.config.useConversationHistory
                 => /\ Len(history) = Smaller(M, c.rows)
                    /\ \A n \in DOMAIN history :
                         history[n].content = c.rows - Len(history) + n

\* lo <= time <= hi, in milliseconds.
WithinMs(time, lo, hi) == lo * time.den <= time.units /\ time.units <= hi * time.den

\* C30: whatever the text, the drawn typing speed and the drawn jitter are,
\* calculateTypingTime returns a time of 1000 to 10000 ms and
\* calculateReadingTime a time of 500 to 5000 ms.
C30_TimesWithinBounds ==
  \A i \in DOMAIN calls :
    /\ calls[i].kind = "calculateTypingTime" => WithinMs(calls[i].time, 1000, 10000)
    /\ calls[i].kind = "calculateReadingTime" => WithinMs(calls[i].time, 500, 5000)

\* The typing time of a text of 30 words at the highest speed and the lowest
\* jitter, 59 * 750 * 0.8 ms unclamped, was cut to 10000 ms.
C30_Witness ==
  /\ Len(calls) = 1
  /\ calls[1].kind = "calculateTypingTime"
  /\ calls[1].text = TextOfWords(30) /\ calls[1].speed = maxSpeed /\ calls[1].random = 0
  /\ calls[1].time.units = 10000 * calls[1].time.den

\* The chunks one after the other.
RECURSIVE Concat(_)
Concat(chunks) == IF chunks = <<>> THEN <<>> ELSE Head(chunks) \o Concat(Tail(chunks))

\* The text without its whitespace.
Content(text) == SelectSeq(text, LAMBDA ch : ch \notin {" ", "\t", "\n"})

\* C31: the chunks of a text, one after the other and whitespace left aside,
\* are the text, whitespace left aside: nothing is lost, doubled or moved;
\* and a text that is not empty has at least one chunk.
C31_ChunksReproduceText ==
  \A i \in DOMAIN calls :
    calls[i].kind = "chunkMessage"
      => /\ Content(Concat(calls[i].chunks)) = Content(calls[i].text)
         /\ calls[i].text # <<>> => calls[i].chunks # <<>>

\* The chunk is one sentence of the text that alone is longer than the limit.
SingleLongSentence(chunk, text, maxLength) ==
  \E n \in DOMAIN sentencesOf(text) :
    /\ Len(sentencesOf(text)[n]) > maxLength
    /\ chunk = trim(sentencesOf(text)[n])

\* C32: a text not longer than the limit is returned as the only chunk; of a
\* longer text every chunk is at most as long as the limit, unless the chunk
\* is a single sentence that alone is longer than the limit.
C32_ChunksWithinLimit ==
  \A i \in DOMAIN calls :
    calls[i].kind = "chunkMessage"
      => LET c == calls[i]
         IN IF Len(c.text) <= c.maxLength THEN c.chunks = <<c.text>>
            ELSE \A n \in DOMAIN c.chunks :
                   \/ Len(c.chunks[n]) <= c.maxLength
                   \/ SingleLongSentence(c.chunks[n], c.text, c.maxLength)

\* "aa.a." with the limit 2: the sentence "aa.", alone longer than the limit,
\* is the first chunk and the sentence "a." the second.
C32_Witness ==
  /\ Len(calls) = 1 /\ calls[1].kind = "chunkMessage"
  /\ calls[1].maxLength = 2
  /\ calls[1].text = <<"a", "a", ".", "a", ".">>
  /\ calls[1].chunks = << <<"a", "a", ".">>, <<"a", ".">> >>

\* The handler of e delivers its AI reply through simulateNaturalFlow.
InNaturalFlow(e) == ev[e].kind = "ai" /\ ev[e].resp # None /\ NumChunks(ev[e].resp) > 1

\* C33: simulateNaturalFlow hands the chunks to the transport in their order,
\* each once (the step that sends hands over the chunk after the last one
\* sent, which was not sent before), and a chunk is sent only after the
\* typing signal was set for it and then cleared.
C33_NaturalFlowOrder ==
  [][ \A e \in DOMAIN ev :
        InNaturalFlow(e)
          => /\ (ev'[e].chunk > ev[e].chunk)
                  => /\ ev'[e].chunk = ev[e].chunk + 1
                     /\ sent' \ sent =
                          { [ev |-> e, to |-> ev[e].from, kind |-> "ai", n |-> ev[e].chunk + 1] }
             /\ (ev[e].pc # "send" /\ ev'[e].pc = "send") => ev[e].pc = "clear"
             /\ (ev[e].pc # "clear" /\ ev'[e].pc = "clear")
                  => ev[e].pc = "typing" /\ ev'[e].typed ]_vars

\* The step is one of initializeDefaults.
InitializeStep == \E o \in ops : InitializeFind(o) \/ InitializeCreate(o)

\* C34: a step of initializeDefaults changes a setting only from absent to
\* its default, also when an operator has written in between; a run that
\* returned has left every default key present; and a run that started on
\* the store a run had left behind returns and has left it as it was, but
\* for the switches an operator wrote while it ran.
C34_InitializeDefaultsIdempotent ==
  /\ [][ InitializeStep
           => \A k \in DOMAIN settings :
                settings'[k] # settings[k]
                  => settings[k] = Null /\ settings'[k] = DefaultSettings[k] ]_vars
  /\ [](\A i \in DOMAIN calls :
          calls[i].kind = "initializeDefaults"
            => /\ \A k \in DOMAIN settings :
                    calls[i].before[k] # Null => calls[i].after[k] # Null
               /\ calls[i].result = "ok"
                    => \A n \in DOMAIN DefaultKeys : calls[i].after[DefaultKeys[n]] # Null
               /\ (i > 1 /\ calls[i - 1].kind = "initializeDefaults"
                     /\ calls[i - 1].result = "ok" /\ calls[i].before = calls[i - 1].after)
                    => /\ calls[i].result = "ok"
                       /\ \A k \in DOMAIN settings :
                            calls[i].after[k] # calls[i].before[k] => k \in BoolKeys)

\* initializeDefaults ran twice on a store in which the operator had switched
\* auto-reply off and the reply cap was absent: the first run inserted the
\* cap, the second changed nothing, and auto-reply is still off.
C34_Witness ==
  /\ Len(calls) = 2
  /\ calls[1].kind = "initializeDefaults" /\ calls[1].result = "ok"
  /\ calls[2].kind = "initializeDefaults" /\ calls[2].result = "ok"
  /\ calls[1].before["auto_reply_enabled"] = Some(FALSE)
  /\ calls[1].before["max_replies_per_contact"] = Null
  /\ calls[1].after["max_replies_per_contact"] = Some(DefaultMaxReplies)
  /\ calls[2].before = calls[1].after /\ calls[2].after = calls[1].after
  /\ settings["auto_reply_enabled"] = Some(FALSE)

\* The step ends the handler of event e in its catch block.
FailsAt(e) ==
  /\ e \in DOMAIN ev /\ ~Done(e)
  /\ ev'[e].pc = "done" /\ ev'[e].outcome = "error"

DecisionOf(e) ==
  IF ev[e].kind # None THEN ev[e].kind
  ELSE IF ev[e].outcome = "Auto-reply is disabled" THEN "auto-reply-disabled"
  ELSE IF ev[e].outcome = "Outside business hours" THEN "outside-business-hours"
  ELSE ev[e].outcome

\* The decision for event e evaluated entirely under the settings s at the
\* time now.
SnapshotDecision(s, now, e) ==
  LET contact == [id |-> ev[e].cid, isGroup |-> contacts[ev[e].cid][1].isGroup]
      shouldReply == shouldReplyToContact(s, now, contact)
  IN IF ~isAutoReplyEnabled(s) THEN "auto-reply-disabled"
     ELSE IF truthy(getSetting(s, "business_hours_enabled")) /\ ~checkBusinessHours(s, now)
       THEN IF truthy(getSetting(s, "out_of_office_enabled"))
              THEN "ooo" ELSE "outside-business-hours"
     ELSE IF ~shouldReply.should THEN shouldReply.reason
     ELSE Decide(ev[e]).kind

\* The handler of e went through its checks and returned or chose a message.
Decided(e) ==
  /\ Actionable(e) /\ ev[e].cid # None
  /\ ev[e].kind # None \/ (Done(e) /\ ev[e].outcome # "error")

\* C36: while no operator changed a setting, the decision of a handler is the
\* decision under the settings at one of the times the clock showed (before
\* or after business hours ended or began), with the stop-list either holding
\* the contact or not: never a decision that neither time produces.
C36_SingleSnapshot ==
  \A e \in DOMAIN ev :
    (Decided(e) /\ opsUsed = 0) =>
      \E now \in ClockValues, l \in {Null, Some(<<ev[e].cid>>)} :
        DecisionOf(e) =
          SnapshotDecision([settings EXCEPT !["stopped_contacts"] = l], now, e)

\* The handler of e acknowledged a stop keyword and its stopContact returned.
OptedOutByKeyword(e) ==
  Done(e) /\ ev[e].kind = "stopAck" /\ ev[e].stopDone

\* C37: a contact that opted out with a stop keyword and was then taken over
\* is still on the stop-list after every step of releaseConversation on it.
C37_OptOutSurvivesRelease ==
  [][ \A e \in DOMAIN ev, o \in ops :
        ( /\ OptedOutByKeyword(e)
          /\ o.kind = "release" /\ o.contact = Sender(e)
          /\ TakenOver(Sender(e))
          /\ listIncludes(stoppedNow, Sender(e)) )
          => listIncludes(getSettingOr(settings', "stopped_contacts", <<>>),
                          Sender(e)) ]_vars

\* C38: no step of a handler of an inbound event takes an id off the
\* stop-list: every contact listed before the step is listed after it.
C38_HandlersOnlyGrowStopList ==
  [][ Handler =>
        \A c \in Phones :
          listIncludes(stoppedNow, c)
            => listIncludes(getSettingOr(settings', "stopped_contacts", <<>>), c) ]_vars

\* The inbound message of event e has its from-contact Message row.
InboundRecorded(e) ==
  \E row \in messages :
    row.ev = e /\ ~row.isFromMe /\ row.by = "saveMessage" /\ row.contact = ev[e].cid

\* C39: once the handler of an actionable event has evaluated its first
\* gating check, the contact exists and the inbound message has its
\* from-contact Message row, whatever the handler decides; and the arrival of
\* a self-authored or status event at handleIncomingMessage changes neither
\* settings, contacts, rows nor sent messages.
C39_RecordedBeforeChecks ==
  /\ [](\A e \in DOMAIN ev :
          (Actionable(e) /\ StartedChecks(e))
            => contacts[Sender(e)] # Null /\ InboundRecorded(e))
  /\ [][\A e \in DOMAIN ev' :
          (e \notin DOMAIN ev /\ ev'[e].flag # "none")
            => /\ ev'[e].pc = "done"
               /\ UNCHANGED <<settings, contacts, messages, sent, pendingCreate>>]_vars

\* The step ends the call o of takeoverConversation with an error: contact
\* not found, the stop-list write refused, or the notification not sent.
TakeoverFails(o) ==
  /\ o \in ops /\ o.kind = "takeover" /\ ops' = EndOp(o)
  /\ o.pc \in {"read", "write", "notify"}

\* No handler of an event of the contact has reached stopContact, so only an
\* operator call can have put the contact on the stop-list.
NoKeywordStop(c) ==
  \A e \in DOMAIN ev : Sender(e) = c => ev[e].kind \notin {"stopAck", "humanAck"}

\* C40: when the first operator call is a takeoverConversation that ends with
\* an error, the contact's takeover flag is not set, and the contact is not
\* on the stop-list unless its own keyword put it there: the failed call
\* changed neither.
C40_TakeoverAllOrNothing ==
  [][ \A o \in ops :
        (o.id = 1 /\ TakeoverFails(o))
          => /\ TakeoverFlagOf(contacts', o.contact) # Some(TRUE)
             /\ NoKeywordStop(o.contact)
                  => ~listIncludes(getSettingOr(settings', "stopped_contacts", <<>>),
                                   o.contact) ]_vars

====
